---- MODULE Spec2Model ----
(***************************************************************************)
(* The VXP track-and-balance evaluation engine (vxp/solver.py).            *)
(*                                                                         *)
(* Numbers.  The code computes on floats; the model computes on exact      *)
(* fixed-point integers:                                                   *)
(*   - a track deviation is an integer number of 1/TrackDen millimetres;   *)
(*   - an amplitude is an integer number of milli-ips (0.20 ips = 200);    *)
(*   - a phase is an integer number of degrees;                            *)
(*   - a pitch-link or trim-tab suggestion is an integer number of         *)
(*     quarters (the code's round(x * 4.0) before the final / 4.0), so     *)
(*     5.0 is 20 quarters;                                                 *)
(*   - a weight is an integer number of grams.                             *)
(* Python's round() is round-half-to-even; RoundHalfEven computes it on a  *)
(* fraction.  Where the float quotient of a tie is inexact the code's      *)
(* round() can fall to the other neighbour (0.235 ips gives 115 g, the     *)
(* exact tie 117.5 g gives 120 g); on the inputs drawn below the exact and *)
(* the float results agree.                                                *)
(*                                                                         *)
(* A dict is a sequence of <<key, value>> pairs with distinct keys, in the *)
(* dict's iteration (insertion) order.                                     *)
(***************************************************************************)
EXTENDS Integers, Sequences, FiniteSets, TLC

VARIABLES meas, regime, m, fn, ret

vars == <<meas, regime, m, fn, ret>>

\* Track deviations are multiples of 1/TrackDen mm.
TrackDen == 8

----------------------------------------------------------------------------
\* Module constants of solver.py

BLADES == <<"BLU", "GRN", "YEL", "RED">>

REGIMES == <<"GROUND", "HOVER", "HORIZ">>

BLADE_CLOCK_DEG == [YEL |-> 0, RED |-> 90, BLU |-> 180, GRN |-> 270]

PITCHLINK_MM_PER_TURN == 10

TRIMTAB_MMTRACK_PER_MM == 15

\* 0.0020 ips per gram, in milli-ips per gram
BOLT_IPS_PER_GRAM == 2

----------------------------------------------------------------------------
\* Values and host-language helpers

Range(s) == {s[i] : i \in 1..Len(s)}

BladeSet == Range(BLADES)

RegimeSet == Range(REGIMES)

\* The absent measurement (Python's None passed for m)
None == [none |-> TRUE]

\* Python's None returned as a status
StatusNone == "None"

\* A call either returns a value or raises
Return(v) == [value |-> v]

Raise(e) == [exc |-> e]

Raised(r) == "exc" \in DOMAIN r

Measurement(track, amp, phase) ==
    [track_mm |-> track, balance |-> [amp_ips |-> amp, phase_deg |-> phase]]

abs(x) == IF x < 0 THEN -x ELSE x

min(a, b) == IF a <= b THEN a ELSE b

max(a, b) == IF a >= b THEN a ELSE b

SetMax(S) == CHOOSE x \in S : \A y \in S : y <= x

SetMin(S) == CHOOSE x \in S : \A y \in S : x <= y

\* Python round(num / den) for den > 0: nearest integer, ties to the even one
RoundHalfEven(num, den) ==
    LET q == num \div den
        r == num % den
    IN  IF 2 * r < den THEN q
        ELSE IF 2 * r > den THEN q + 1
        ELSE IF q % 2 = 0 THEN q ELSE q + 1

\* dict operations
Keys(d) == {d[i][1] : i \in 1..Len(d)}

Get(d, k) == d[CHOOSE i \in 1..Len(d) : d[i][1] = k][2]

GetOrNone(d, k) == IF k \in Keys(d) THEN Get(d, k) ELSE None

----------------------------------------------------------------------------
\* Limit model

track_limit(r) == 15 * TrackDen

\* a legacy GROUND balance limit of 0.25, above the acceptance limit
balance_limit_loose(r) == IF r = "GROUND" THEN 250 ELSE 150

balance_limit(r) == IF r = "GROUND" THEN 200 ELSE 150

acceptance_track_limit(r) == 20 * TrackDen

procedural_track_limit(r) == 30 * TrackDen

acceptance_balance_limit(r) == 200

procedural_balance_limit(r) == 300

----------------------------------------------------------------------------
\* Track spread and status classification

\* track_spread reading a missing blade key as 0 (m.track_mm.get(b, 0.0))
track_spread_default(x) ==
    LET vals == {IF b \in DOMAIN x.track_mm THEN x.track_mm[b] ELSE 0 : b \in BladeSet}
    IN  Return(SetMax(vals) - SetMin(vals))

\* m.track_mm[b] for each blade raises KeyError when a blade key is missing
track_spread(x) ==
    IF \E b \in BladeSet : b \notin DOMAIN x.track_mm
    THEN Raise("KeyError")
    ELSE LET vals == {x.track_mm[b] : b \in BladeSet}
         IN  Return(SetMax(vals) - SetMin(vals))

\* float(m.balance.amp_ips) raises AttributeError when the field is missing
amp_of(x) ==
    IF "amp_ips" \notin DOMAIN x.balance
    THEN Raise("AttributeError")
    ELSE Return(x.balance.amp_ips)

\* regime_status with >= for the procedural track limit
regime_status_ge(r, x) ==
    IF x = None THEN StatusNone
    ELSE LET ts == track_spread(x)
             amp == amp_of(x)
         IN  IF Raised(ts) \/ Raised(amp) THEN "DONE"
             ELSE IF r \notin RegimeSet THEN "DONE"
             ELSE IF ts.value >= procedural_track_limit(r)
                     \/ amp.value > procedural_balance_limit(r) THEN "STOP"
             ELSE IF ts.value > acceptance_track_limit(r)
                     \/ amp.value > acceptance_balance_limit(r) THEN "WARN"
             ELSE "OK"

\* regime_status with the acceptance balance comparison turned round
regime_status_flip(r, x) ==
    IF x = None THEN StatusNone
    ELSE LET ts == track_spread(x)
             amp == amp_of(x)
         IN  IF Raised(ts) \/ Raised(amp) THEN "DONE"
             ELSE IF r \notin RegimeSet THEN "DONE"
             ELSE IF ts.value > procedural_track_limit(r)
                     \/ amp.value > procedural_balance_limit(r) THEN "STOP"
             ELSE IF ts.value > acceptance_track_limit(r)
                     \/ amp.value < acceptance_balance_limit(r) THEN "WARN"
             ELSE "OK"

regime_status(r, x) ==
    IF x = None THEN StatusNone
    ELSE LET ts == track_spread(x)
             amp == amp_of(x)
         IN  IF Raised(ts) \/ Raised(amp) THEN "DONE"
             ELSE IF r \notin RegimeSet THEN "DONE"
             ELSE IF ts.value > procedural_track_limit(r)
                     \/ amp.value > procedural_balance_limit(r) THEN "STOP"
             ELSE IF ts.value > acceptance_track_limit(r)
                     \/ amp.value > acceptance_balance_limit(r) THEN "WARN"
             ELSE "OK"

----------------------------------------------------------------------------
\* Aggregate pass/fail

\* all_ok with a missing regime skipped instead of failing the check
all_ok_skip_missing(d) ==
    \A r \in RegimeSet :
        r \in Keys(d) =>
            /\ ~(track_spread(Get(d, r)).value > track_limit(r))
            /\ ~(Get(d, r).balance.amp_ips > balance_limit(r))

\* the loop body for REGIMES[i], then the rest of the loop
RECURSIVE all_ok_from(_, _)
all_ok_from(d, i) ==
    IF i > Len(REGIMES) THEN TRUE
    ELSE LET r == REGIMES[i]
         IN  IF r \notin Keys(d) THEN FALSE
             ELSE IF track_spread(Get(d, r)).value > track_limit(r) THEN FALSE
             ELSE IF Get(d, r).balance.amp_ips > balance_limit(r) THEN FALSE
             ELSE all_ok_from(d, i + 1)

all_ok(d) == all_ok_from(d, 1)

----------------------------------------------------------------------------
\* Adjustment suggestions

\* round(x * 4.0) for x = num / den, den > 0: the result in quarters
round_quarter(num, den) == RoundHalfEven(num * 4, den)

\* sum(meas[r].track_mm[b] for r in used)
RECURSIVE track_sum(_, _, _)
track_sum(d, used, b) ==
    IF used = <<>> THEN 0
    ELSE Get(d, Head(used)).track_mm[b] + track_sum(d, Tail(used), b)

\* suggest_pitchlink dividing the sum by 2 whatever the number of regimes used
suggest_pitchlink_half(d) ==
    LET IsIn(r) == r \in Keys(d)
        used == SelectSeq(<<"GROUND", "HOVER">>, IsIn)
    IN  IF used = <<>> THEN [b \in BladeSet |-> 0]
        ELSE [b \in BladeSet |->
                round_quarter(-track_sum(d, used, b),
                              2 * TrackDen * PITCHLINK_MM_PER_TURN)]

suggest_pitchlink(d) ==
    LET IsIn(r) == r \in Keys(d)
        used == SelectSeq(<<"GROUND", "HOVER">>, IsIn)
    IN  IF used = <<>> THEN [b \in BladeSet |-> 0]
        ELSE [b \in BladeSet |->
                round_quarter(-track_sum(d, used, b),
                              Len(used) * TrackDen * PITCHLINK_MM_PER_TURN)]

\* suggest_trimtabs without the negation of the deviation
suggest_trimtabs_sign(d) ==
    IF "HORIZ" \notin Keys(d) THEN [b \in BladeSet |-> 0]
    ELSE [b \in BladeSet |->
            LET dev == Get(d, "HORIZ").track_mm[b]
            IN  max(-5 * 4, min(5 * 4,
                    round_quarter(dev, TrackDen * TRIMTAB_MMTRACK_PER_MM)))]

\* suggest_trimtabs without the clamp
suggest_trimtabs_noclamp(d) ==
    IF "HORIZ" \notin Keys(d) THEN [b \in BladeSet |-> 0]
    ELSE [b \in BladeSet |->
            LET dev == Get(d, "HORIZ").track_mm[b]
            IN  round_quarter(-dev, TrackDen * TRIMTAB_MMTRACK_PER_MM)]

suggest_trimtabs(d) ==
    IF "HORIZ" \notin Keys(d) THEN [b \in BladeSet |-> 0]
    ELSE [b \in BladeSet |->
            LET dev == Get(d, "HORIZ").track_mm[b]
            IN  max(-5 * 4, min(5 * 4,
                    round_quarter(-dev, TrackDen * TRIMTAB_MMTRACK_PER_MM)))]

\* max(meas.keys(), key=...): the index of the first maximum in iteration order
FirstMaxIndex(d) ==
    CHOOSE i \in 1..Len(d) :
        /\ \A j \in 1..Len(d) : d[j][2].balance.amp_ips <= d[i][2].balance.amp_ips
        /\ \A j \in 1..(i - 1) : d[j][2].balance.amp_ips < d[i][2].balance.amp_ips

\* the last maximum instead of the first
LastMaxIndex(d) ==
    CHOOSE i \in 1..Len(d) :
        /\ \A j \in 1..Len(d) : d[j][2].balance.amp_ips <= d[i][2].balance.amp_ips
        /\ \A j \in (i + 1)..Len(d) : d[j][2].balance.amp_ips < d[i][2].balance.amp_ips

dist(a, b) ==
    LET dd == abs(a - b) % 360
    IN  min(dd, 360 - dd)

\* min(BLADES, key=...): the first blade of BLADES at the least distance
NearestBlade(target) ==
    LET i == CHOOSE i \in 1..Len(BLADES) :
                 /\ \A j \in 1..Len(BLADES) :
                        dist(target, BLADE_CLOCK_DEG[BLADES[i]])
                            <= dist(target, BLADE_CLOCK_DEG[BLADES[j]])
                 /\ \A j \in 1..(i - 1) :
                        dist(target, BLADE_CLOCK_DEG[BLADES[i]])
                            < dist(target, BLADE_CLOCK_DEG[BLADES[j]])
    IN  BLADES[i]

\* the weight placed at the vibration's phase instead of opposite it
WeightFor_same_side(d, i) ==
    LET x == d[i][2]
        amp == x.balance.amp_ips
        phase == x.balance.phase_deg
        target == phase % 360
        blade == NearestBlade(target)
        grams == max(5, min(120, RoundHalfEven(amp, BOLT_IPS_PER_GRAM * 5) * 5))
    IN  <<blade, grams>>

\* suggest_weight on the measurement at index i of a non-empty mapping
WeightFor(d, i) ==
    LET x == d[i][2]
        amp == x.balance.amp_ips
        phase == x.balance.phase_deg
        target == (phase + 180) % 360
        blade == NearestBlade(target)
        grams == max(5, min(120, RoundHalfEven(amp, BOLT_IPS_PER_GRAM * 5) * 5))
    IN  <<blade, grams>>

\* suggest_weight taking the last regime of maximum amplitude
suggest_weight_last(d) ==
    IF d = <<>> THEN <<"YEL", 0>> ELSE WeightFor(d, LastMaxIndex(d))

suggest_weight(d) ==
    IF d = <<>> THEN <<"YEL", 0>> ELSE WeightFor(d, FirstMaxIndex(d))

----------------------------------------------------------------------------
\* Inputs of the status specification

\* an identifier outside REGIMES
RegimeIds == RegimeSet \cup {"CLIMB"}

StatusTrackVals == {-1, 0, 20 * TrackDen, 30 * TrackDen}

StatusAmps == {0, 200, 201, 300, 301}

StatusMeasurements ==
    {Measurement(t, a, 0) : t \in [BladeSet -> StatusTrackVals], a \in StatusAmps}

\* a blade key missing, or the amplitude field missing
MalformedMeasurements ==
    {Measurement([b \in BladeSet \ {gone} |-> t], a, 0) :
        gone \in BladeSet, t \in {0, 31 * TrackDen}, a \in {0, 301}}
    \cup {[track_mm |-> [b \in BladeSet |-> t], balance |-> [phase_deg |-> 0]] :
        t \in {0, 31 * TrackDen}}

----------------------------------------------------------------------------
\* Calls.  fn is the function called last and ret what it returned, in a record
\* whose field names the kind of result: status, value or exc (track_spread),
\* ok, turns, bend, weight.

NoCall == "none"

NoRet == [none |-> TRUE]

CallRegimeStatus ==
    /\ fn' = "regime_status"
    /\ ret' = [status |-> regime_status(regime, m)]
    /\ UNCHANGED <<meas, regime, m>>

CallTrackSpread ==
    /\ m # None
    /\ fn' = "track_spread"
    /\ ret' = track_spread(m)
    /\ UNCHANGED <<meas, regime, m>>

CallAllOk ==
    /\ fn' = "all_ok"
    /\ ret' = [ok |-> all_ok(meas)]
    /\ UNCHANGED <<meas, regime, m>>

CallSuggestPitchlink ==
    /\ fn' = "suggest_pitchlink"
    /\ ret' = [turns |-> suggest_pitchlink(meas)]
    /\ UNCHANGED <<meas, regime, m>>

CallSuggestTrimtabs ==
    /\ fn' = "suggest_trimtabs"
    /\ ret' = [bend |-> suggest_trimtabs(meas)]
    /\ UNCHANGED <<meas, regime, m>>

CallSuggestWeight ==
    /\ fn' = "suggest_weight"
    /\ ret' = [weight |-> suggest_weight(meas)]
    /\ UNCHANGED <<meas, regime, m>>

----------------------------------------------------------------------------
\* Specifications: each draws the caller's inputs and applies the functions

\* the mapping holding the given measurements (None: regime absent), inserted
\* in the order of REGIMES
Mapping(g, h, z) ==
    LET all == <<<<"GROUND", g>>, <<"HOVER", h>>, <<"HORIZ", z>>>>
        Present(e) == e[2] # None
    IN  SelectSeq(all, Present)

InitStatus ==
    /\ meas = <<>>
    /\ regime \in RegimeIds
    /\ m \in StatusMeasurements \cup MalformedMeasurements \cup {None}
    /\ fn = NoCall
    /\ ret = NoRet

NextStatus == CallRegimeStatus \/ CallTrackSpread

SpecStatus == InitStatus /\ [][NextStatus]_vars

\* Trim tabs: every HORIZ track profile over TrimVals, GROUND and HOVER absent
\* or present.  TrimVals holds 0, the rounding ties 1.875 mm (0.5 quarter) and
\* -5.625 mm (1.5 quarters), the clamp edge 75 mm, 76.875 mm (20.5 quarters)
\* and +/- 1000 mm.
TrimVals ==
    {0, (15 * TrackDen) \div 8, -((45 * TrackDen) \div 8), 75 * TrackDen,
     (615 * TrackDen) \div 8, 1000 * TrackDen, -1000 * TrackDen}

OtherMeasurements ==
    {Measurement([b \in BladeSet |-> t], 100, 90) : t \in {0, 1000 * TrackDen}}

InitTrim ==
    /\ \E g, h \in OtherMeasurements \cup {None} :
       \E z \in {Measurement(t, 100, 90) : t \in [BladeSet -> TrimVals]} \cup {None} :
           meas = Mapping(g, h, z)
    /\ regime = "HORIZ"
    /\ m = GetOrNone(meas, regime)
    /\ fn = NoCall
    /\ ret = NoRet

NextTrim == CallSuggestTrimtabs

SpecTrim == InitTrim /\ [][NextTrim]_vars

\* Pitch links: every GROUND and HOVER track profile over PitchVals, HORIZ
\* absent or present.  PitchVals holds the rounding ties 1.25 mm (0.5 quarter
\* for one regime) and -3.75 mm (1.5 quarters) and 1000 mm.
PitchVals == {(10 * TrackDen) \div 8, -((30 * TrackDen) \div 8), 1000 * TrackDen}

PitchMeasurements == {Measurement(t, 100, 90) : t \in [BladeSet -> PitchVals]}

InitPitch ==
    /\ \E g, h \in PitchMeasurements \cup {None} :
       \E z \in OtherMeasurements \cup {None} :
           meas = Mapping(g, h, z)
    /\ regime = "GROUND"
    /\ m = GetOrNone(meas, regime)
    /\ fn = NoCall
    /\ ret = NoRet

NextPitch == CallSuggestPitchlink

SpecPitch == InitPitch /\ [][NextPitch]_vars

\* Balance weight: mappings of up to three regimes in every insertion order,
\* over amplitudes that round down to 0 g, tie at 7.5 g and 12.5 g, and exceed
\* 120 g, and phases whose targets are nearest to one blade or tie between two.
WeightAmps == {0, 15, 25, 250}

WeightPhases == {-90, 45, 135, 190, 225, 315}

WeightMeasurements ==
    {Measurement([b \in BladeSet |-> 0], a, ph) : a \in WeightAmps, ph \in WeightPhases}

\* the sequences of distinct regimes
KeyOrders ==
    {ks \in UNION {[1..n -> RegimeSet] : n \in 0..Len(REGIMES)} :
        \A i, j \in 1..Len(ks) : i # j => ks[i] # ks[j]}

InitWeight ==
    /\ \E ks \in KeyOrders : \E xs \in [1..Len(ks) -> WeightMeasurements] :
           meas = [i \in 1..Len(ks) |-> <<ks[i], xs[i]>>]
    /\ regime = "GROUND"
    /\ m = GetOrNone(meas, regime)
    /\ fn = NoCall
    /\ ret = NoRet

NextWeight == CallSuggestWeight

SpecWeight == InitWeight /\ [][NextWeight]_vars

\* The whole engine on one mapping: each regime absent or measured, with no
\* blade or one blade out of track by 15 mm or just over, and amplitudes at and
\* over the legacy limits; regime_status is called as regime_status(r, meas.get(r)).
EngineTracks ==
    {[b \in BladeSet |-> 0],
     [b \in BladeSet |-> IF b = "RED" THEN 15 * TrackDen ELSE 0],
     [b \in BladeSet |-> IF b = "BLU" THEN -(15 * TrackDen + 1) ELSE 0]}

EngineAmps == {0, 150, 200, 201}

EngineMeasurements == {Measurement(t, a, 0) : t \in EngineTracks, a \in EngineAmps}

Init ==
    /\ \E g, h, z \in EngineMeasurements \cup {None} : meas = Mapping(g, h, z)
    /\ regime \in RegimeSet
    /\ m = GetOrNone(meas, regime)
    /\ fn = NoCall
    /\ ret = NoRet

Next ==
    \/ CallRegimeStatus
    \/ CallTrackSpread
    \/ CallAllOk
    \/ CallSuggestPitchlink
    \/ CallSuggestTrimtabs
    \/ CallSuggestWeight

Spec == Init /\ [][Next]_vars

----------------------------------------------------------------------------
\* Properties of regime_status and track_spread (SpecStatus)

\* all four blade keys and the amplitude field are present
WellFormed(x) ==
    /\ \A b \in BladeSet : b \in DOMAIN x.track_mm
    /\ "amp_ips" \in DOMAIN x.balance

MissingBlade(x) == \E b \in BladeSet : b \notin DOMAIN x.track_mm

\* max - min of the four deviations, stated over pairs of blades
SpreadOf(x) ==
    CHOOSE s \in {x.track_mm[a] - x.track_mm[b] : a, b \in BladeSet} :
        \A a, b \in BladeSet : x.track_mm[a] - x.track_mm[b] <= s

Severity(s) == CASE s = "OK" -> 0 [] s = "WARN" -> 1 [] s = "STOP" -> 2

\* C1: regime_status returns None iff no measurement is supplied; for a
\* well-formed measurement it returns DONE when the regime is not GROUND, HOVER
\* or HORIZ, else STOP when spread > 30 mm or amplitude > 0.30, else WARN when
\* spread > 20 mm or amplitude > 0.20, else OK; a value equal to a limit does
\* not exceed it.
C1_StatusPriority ==
    fn = "regime_status" =>
        /\ (ret.status = StatusNone) <=> (m = None)
        /\ (m # None /\ WellFormed(m)) =>
              LET ts == SpreadOf(m)
                  amp == m.balance.amp_ips
              IN  IF regime \notin {"GROUND", "HOVER", "HORIZ"} THEN ret.status = "DONE"
                  ELSE IF ts > 30 * TrackDen \/ amp > 300 THEN ret.status = "STOP"
                  ELSE IF ts > 20 * TrackDen \/ amp > 200 THEN ret.status = "WARN"
                  ELSE ret.status = "OK"

\* a spread of exactly 30 mm with an amplitude of exactly 0.30 is WARN, not STOP
C1_Witness ==
    /\ fn = "regime_status"
    /\ regime = "HOVER"
    /\ m # None /\ WellFormed(m)
    /\ SpreadOf(m) = 30 * TrackDen
    /\ m.balance.amp_ips = 300
    /\ ret.status = "WARN"

\* measurements with one blade out of track, against which a call is compared
MonoProbes ==
    {Measurement([b \in BladeSet |-> IF b = hb THEN d ELSE 0], a, 0) :
        hb \in {"BLU", "RED"},
        d \in {0, 20 * TrackDen, 20 * TrackDen + 1, 30 * TrackDen, 30 * TrackDen + 1},
        a \in StatusAmps}

\* C7: for a recognized regime and well-formed measurements, a measurement
\* with no larger spread and no larger amplitude never has a higher severity
\* (OK < WARN < STOP), and one with no smaller spread and amplitude never a
\* lower one.
C7_Monotone ==
    (fn = "regime_status" /\ regime \in RegimeSet /\ m # None /\ WellFormed(m)) =>
        \A sm \in {SpreadOf(m)} : \A x \in MonoProbes : \A sx \in {SpreadOf(x)} :
            /\ (sx <= sm /\ x.balance.amp_ips <= m.balance.amp_ips)
                  => Severity(regime_status(regime, x)) <= Severity(ret.status)
            /\ (sm <= sx /\ m.balance.amp_ips <= x.balance.amp_ips)
                  => Severity(ret.status) <= Severity(regime_status(regime, x))

\* a STOP result with a smaller measurement that is OK and one that is WARN
C7_Witness ==
    /\ fn = "regime_status" /\ regime \in RegimeSet /\ m # None /\ WellFormed(m)
    /\ ret.status = "STOP"
    /\ \E x \in MonoProbes :
          /\ SpreadOf(x) <= SpreadOf(m) /\ x.balance.amp_ips <= m.balance.amp_ips
          /\ regime_status(regime, x) = "OK"
    /\ \E x \in MonoProbes :
          /\ SpreadOf(x) <= SpreadOf(m) /\ x.balance.amp_ips <= m.balance.amp_ips
          /\ regime_status(regime, x) = "WARN"

\* C9: on a measurement that lacks a blade key track_spread raises (it returns
\* no value), and regime_status returns DONE for every regime identifier.
C9_Malformed ==
    /\ (fn = "track_spread" /\ MissingBlade(m)) =>
          (Raised(ret) /\ "value" \notin DOMAIN ret)
    /\ (fn = "regime_status" /\ m # None /\ MissingBlade(m)) => ret.status = "DONE"

\* a recognized regime, a blade key missing, limits exceeded by the rest: DONE
C9_Witness ==
    /\ fn = "regime_status"
    /\ regime = "GROUND"
    /\ m # None /\ MissingBlade(m)
    /\ m.balance.amp_ips = 301
    /\ ret.status = "DONE"

----------------------------------------------------------------------------
\* Properties of suggest_trimtabs (SpecTrim)

\* q is an integer nearest to num / den (den > 0)
NearestInt(q, num, den) == 2 * abs(q * den - num) <= den

\* the two integers around num / den
Around(num, den) == {num \div den, (num \div den) + 1}

Clamp(x, lo, hi) == IF x < lo THEN lo ELSE IF x > hi THEN hi ELSE x

\* C5: without HORIZ every blade gets 0.0; with it each blade gets a nearest
\* quarter of -track_mm / 15, clamped to [-5.0, 5.0] after rounding, so every
\* value lies in [-5.0, 5.0].
C5_Trimtabs ==
    fn = "suggest_trimtabs" =>
        IF "HORIZ" \notin Keys(meas) THEN \A b \in BladeSet : ret.bend[b] = 0
        ELSE \A b \in BladeSet :
                LET dev == Get(meas, "HORIZ").track_mm[b]
                IN  /\ \E q \in Around(-4 * dev, 15 * TrackDen) :
                          /\ NearestInt(q, -4 * dev, 15 * TrackDen)
                          /\ ret.bend[b] = Clamp(q, -20, 20)
                    /\ ret.bend[b] \in -20..20

\* HORIZ present with a blade rounded at a tie (-5.625 mm gives 0.5) and a blade
\* clamped (-1000 mm gives 5.0), GROUND present
C5_Witness ==
    /\ fn = "suggest_trimtabs"
    /\ {"GROUND", "HORIZ"} \subseteq Keys(meas)
    /\ Get(meas, "HORIZ").track_mm["BLU"] = -((45 * TrackDen) \div 8)
    /\ ret.bend["BLU"] = 2
    /\ Get(meas, "HORIZ").track_mm["RED"] = -1000 * TrackDen
    /\ ret.bend["RED"] = 20

\* C6 as stated: a HORIZ track_mm of 1000 for a blade gives 5.0 for that blade.
C6_Original ==
    (fn = "suggest_trimtabs" /\ "HORIZ" \in Keys(meas)) =>
        \A b \in BladeSet :
            Get(meas, "HORIZ").track_mm[b] = 1000 * TrackDen => ret.bend[b] = 20

\* C6 amended: a HORIZ track_mm of 1000 for a blade gives -5.0 for that blade
\* (the raw -66.67 is clamped to -5.0).
C6_Clamp1000 ==
    (fn = "suggest_trimtabs" /\ "HORIZ" \in Keys(meas)) =>
        \A b \in BladeSet :
            Get(meas, "HORIZ").track_mm[b] = 1000 * TrackDen => ret.bend[b] = -20

C6_Witness ==
    /\ fn = "suggest_trimtabs"
    /\ "HORIZ" \in Keys(meas)
    /\ Get(meas, "HORIZ").track_mm["YEL"] = 1000 * TrackDen
    /\ ret.bend["YEL"] = -20

----------------------------------------------------------------------------
\* Properties of suggest_pitchlink (SpecPitch)

\* the mapping without key k
Without(d, k) ==
    LET Keep(e) == e[1] # k
    IN  SelectSeq(d, Keep)

\* C8: without GROUND and HOVER every blade gets 0.0; otherwise each blade gets
\* a nearest quarter of -(average of its track_mm over those of GROUND and
\* HOVER that are present) / 10, unclamped, and HORIZ does not change the result.
C8_Pitchlink ==
    fn = "suggest_pitchlink" =>
        LET present == {"GROUND", "HOVER"} \cap Keys(meas)
            n == Cardinality(present)
        IN  /\ IF n = 0 THEN \A b \in BladeSet : ret.turns[b] = 0
               ELSE \A b \in BladeSet :
                       LET total ==
                               (IF "GROUND" \in present
                                THEN Get(meas, "GROUND").track_mm[b] ELSE 0)
                               + (IF "HOVER" \in present
                                  THEN Get(meas, "HOVER").track_mm[b] ELSE 0)
                       IN  /\ ret.turns[b] \in Around(-4 * total, 10 * n * TrackDen)
                           /\ NearestInt(ret.turns[b], -4 * total, 10 * n * TrackDen)
            /\ ret.turns = suggest_pitchlink(Without(meas, "HORIZ"))

\* only HOVER of the two present, with HORIZ: a tie (1.25 mm gives 0.0) and a
\* value far beyond 5.0 (1000 mm gives -100.0)
C8_Witness ==
    /\ fn = "suggest_pitchlink"
    /\ Keys(meas) = {"HOVER", "HORIZ"}
    /\ Get(meas, "HOVER").track_mm["BLU"] = (10 * TrackDen) \div 8
    /\ ret.turns["BLU"] = 0
    /\ Get(meas, "HOVER").track_mm["GRN"] = 1000 * TrackDen
    /\ ret.turns["GRN"] = -400

----------------------------------------------------------------------------
\* Properties of suggest_weight (SpecWeight)

ClockOf(b) ==
    CASE b = "YEL" -> 0 [] b = "RED" -> 90 [] b = "BLU" -> 180 [] b = "GRN" -> 270

\* position in the tie-breaking order BLU, GRN, YEL, RED
TieRank(b) ==
    CASE b = "BLU" -> 1 [] b = "GRN" -> 2 [] b = "YEL" -> 3 [] b = "RED" -> 4

\* circular distance of two azimuths in 0..359
CircDist(a, b) == min(abs(a - b) % 360, 360 - (abs(a - b) % 360))

\* C3: an empty mapping gives the 0-degree blade YEL and 0 g; otherwise, for
\* the first regime of maximum amplitude in iteration order and target =
\* (phase + 180) mod 360, the blade is nearest to the target in circular
\* distance, ties going to the earlier of BLU, GRN, YEL, RED, and the grams are
\* amplitude / 0.0020 taken to a nearest multiple of 5 and clamped to [5, 120].
C3_Weight ==
    fn = "suggest_weight" =>
        IF meas = <<>> THEN ret.weight = <<"YEL", 0>> /\ ClockOf(ret.weight[1]) = 0
        ELSE \E i \in 1..Len(meas) :
                LET amp == meas[i][2].balance.amp_ips
                    target == (meas[i][2].balance.phase_deg + 180) % 360
                IN  /\ \A j \in 1..Len(meas) : meas[j][2].balance.amp_ips <= amp
                    /\ \A j \in 1..(i - 1) : meas[j][2].balance.amp_ips < amp
                    /\ ret.weight[1] \in {"BLU", "GRN", "YEL", "RED"}
                    /\ \A b \in {"BLU", "GRN", "YEL", "RED"} :
                          \/ CircDist(target, ClockOf(ret.weight[1])) < CircDist(target, ClockOf(b))
                          \/ /\ CircDist(target, ClockOf(ret.weight[1])) = CircDist(target, ClockOf(b))
                             /\ TieRank(ret.weight[1]) <= TieRank(b)
                    /\ \E k \in Around(amp, 10) :
                          /\ NearestInt(k, amp, 10)
                          /\ ret.weight[2] = Clamp(5 * k, 5, 120)
                    /\ ret.weight[2] # 0

\* three regimes, the maximum amplitude shared by the second and the third:
\* the second decides (phase 225 + 180 = 405, target 45, YEL and RED tie, YEL wins)
C3_Witness ==
    /\ fn = "suggest_weight"
    /\ Len(meas) = 3
    /\ meas[1][2].balance.amp_ips = 15
    /\ meas[2][2].balance.amp_ips = 25
    /\ meas[3][2].balance.amp_ips = 25
    /\ meas[2][2].balance.phase_deg = 225
    /\ meas[3][2].balance.phase_deg = -90
    /\ ret.weight = <<"YEL", 10>>

----------------------------------------------------------------------------
\* Properties of the whole engine (Spec)

AllZero ==
    /\ Keys(meas) = {"GROUND", "HOVER", "HORIZ"}
    /\ \A r \in Keys(meas) : Get(meas, r) = Measurement([b \in BladeSet |-> 0], 0, 0)

\* C4 as stated: on the all-zero measurements of the three regimes every status
\* is OK, all_ok is true, pitch links and trim tabs are 0.0, and suggest_weight
\* returns the 0-degree blade (YEL) with 5 g.
C4_Original ==
    AllZero =>
        /\ fn = "regime_status" => ret.status = "OK"
        /\ fn = "all_ok" => ret.ok = TRUE
        /\ fn = "suggest_pitchlink" => \A b \in BladeSet : ret.turns[b] = 0
        /\ fn = "suggest_trimtabs" => \A b \in BladeSet : ret.bend[b] = 0
        /\ fn = "suggest_weight" => (ClockOf(ret.weight[1]) = 0 /\ ret.weight[2] = 5)

\* C4 amended: the same, but suggest_weight returns the 180-degree blade (BLU)
\* with 5 g.
C4_EndToEnd ==
    AllZero =>
        /\ fn = "regime_status" => ret.status = "OK"
        /\ fn = "all_ok" => ret.ok = TRUE
        /\ fn = "suggest_pitchlink" => \A b \in BladeSet : ret.turns[b] = 0
        /\ fn = "suggest_trimtabs" => \A b \in BladeSet : ret.bend[b] = 0
        /\ fn = "suggest_weight" => (ClockOf(ret.weight[1]) = 180 /\ ret.weight = <<"BLU", 5>>)

C4_Witness ==
    /\ AllZero
    /\ fn = "suggest_weight"
    /\ ret.weight = <<"BLU", 5>>

\* the mapping with the value of key k replaced by x
Replaced(d, k, x) == [i \in 1..Len(d) |-> IF d[i][1] = k THEN <<k, x>> ELSE d[i]]

\* C10: when all_ok is true, regime_status is OK for GROUND, HOVER and HORIZ.
C10_AllOkImpliesOk ==
    (fn = "all_ok" /\ ret.ok = TRUE) =>
        \A r \in {"GROUND", "HOVER", "HORIZ"} :
            regime_status(r, GetOrNone(meas, r)) = "OK"

\* all_ok true with every status OK; and the converse fails: with one regime's
\* measurement replaced all three statuses are still OK and all_ok is false
C10_Witness ==
    /\ fn = "all_ok" /\ ret.ok = TRUE
    /\ \A r \in RegimeSet : regime_status(r, Get(meas, r)) = "OK"
    /\ \E r \in RegimeSet : \E x \in EngineMeasurements :
          /\ regime_status(r, x) = "OK"
          /\ ~all_ok(Replaced(meas, r, x))

====
